---- MODULE Spec2Model ----
(***************************************************************************)
(* Model of wsa_profile_switcher.py: the WSA profile rotator.              *)
(*                                                                         *)
(* Persistent state: the profiles directory (disk images *.vhdx, settings  *)
(* files *.dat, the queue file, the active-profile marker), the two target *)
(* paths the subsystem reads, and the subsystem's two processes.           *)
(* One invocation of main() is a sequence of steps of one process p; the   *)
(* steps follow switch_profile() line by line.                             *)
(*                                                                         *)
(* Names are sequences of one-character strings, so that the whitespace    *)
(* stripping done by read_queue is computed, not assumed.                  *)
(***************************************************************************)
EXTENDS Integers, Sequences, FiniteSets, TLC

(***************************************************************************)
(* Bounds of the model.                                                    *)
(***************************************************************************)
MaxInitQueue == 2   \* lines of the queue file found by the first run
MaxRuns == 2        \* invocations of main() in one behaviour
MaxExternal == 1    \* external edits of the profiles directory between runs

(***************************************************************************)
(* Program constants.                                                      *)
(***************************************************************************)
max_retries == 3

DefaultProfile == <<"p", "r", "o", "f", "i", "l", "e", "1">>

\* Profile names (file stems) that may occur in the profiles directory.
Names == { DefaultProfile, <<" ">> \o DefaultProfile, <<"p", "2">> }

\* Lines a pre-existing queue file may hold: names, or a blank line.
QueueLines == Names \cup { <<" ">> }

\* The invocations of the script.  Invocation 1 is the scheduled one.
Procs == {1, 2}

Whitespace == {" ", "\t", "\r", "\n"}

VARIABLES
    dir_exists,        \* the profiles directory exists
    vhdx,              \* stems of the *.vhdx files in the profiles directory
    dat,               \* stems of the *.dat files in the profiles directory
    queue_file,        \* the lines of _queue.txt (<<>> when absent or empty)
    marker,            \* content of _active.txt (<<>> when absent)
    target_vhdx,       \* LocalCache/userdata.2.vhdx
    target_dat,        \* Settings/settings.dat
    client_running,    \* WsaClient.exe is in the process list
    settings_running,  \* WsaSettings.exe is in the process list
    pc,                \* position of each invocation
    err,               \* the failure that ended the invocation, "" if none
    valid_profiles,    \* update_queue's local valid_profiles
    current_queue,     \* switch_profile's local current_queue
    next_profile,      \* switch_profile's local next_profile
    attempt,           \* launch_google_photos' loop variable
    heartbeat,         \* outcome of the completion signal
    is_admin,          \* what check_admin finds for the invocation
    warned,            \* update_queue logged "No valid profiles found"
    issued,            \* commands the run has issued to the subsystem
    last_check,        \* outcome of launch_google_photos' latest attempt
    overlapped,        \* history: a run began while another was in progress
    runs,              \* invocations begun so far
    externals,         \* external edits so far
    h_start,           \* history: the two target paths when the run began
    h_prior,           \* update_queue's current_queue as read (line 77)
    h_written,         \* update_queue's current_queue as written (line 91)
    h_read,            \* history: the queue switch_profile read at line 155
    hist_queue0,       \* history: the persisted queue at the last external edit
    hist_selected      \* history: profiles swapped in since then, in order

env_vars == <<dir_exists, vhdx, dat, queue_file, marker, target_vhdx,
              target_dat, client_running, settings_running>>
local_vars == <<pc, err, valid_profiles, current_queue, next_profile, attempt,
                heartbeat>>
aux_vars == <<is_admin, warned, issued, last_check, overlapped>>
hist_vars == <<runs, externals, h_start, h_prior, h_written, h_read,
               hist_queue0, hist_selected>>
vars == <<env_vars, local_vars, aux_vars, hist_vars>>

(***************************************************************************)
(* Helpers on sequences.                                                   *)
(***************************************************************************)
Range(s) == { s[i] : i \in 1..Len(s) }

BoundedSeq(S, n) == UNION { [1..k -> S] : k \in 0..n }

\* All orders in which a directory listing may return the members of S.
Orderings(S) ==
    { s \in [1..Cardinality(S) -> S] :
        \A i, j \in 1..Cardinality(S) : i # j => s[i] # s[j] }

IsDistinct(s) == \A i, j \in 1..Len(s) : i # j => s[i] # s[j]

\* list.pop() in place of list.remove(x).
Remove_Pop(s, x) == SubSeq(s, 1, Len(s) - 1)

\* list.remove(x): delete the first occurrence of x.
RECURSIVE Remove(_, _)
Remove(s, x) ==
    IF s = <<>> THEN <<>>
    ELSE IF Head(s) = x THEN Tail(s)
    ELSE <<Head(s)>> \o Remove(Tail(s), x)

\* str.strip(): drop leading and trailing whitespace.
RECURSIVE LStrip(_)
LStrip(s) ==
    IF s # <<>> /\ Head(s) \in Whitespace THEN LStrip(Tail(s)) ELSE s

RECURSIVE RStrip(_)
RStrip(s) ==
    IF s # <<>> /\ s[Len(s)] \in Whitespace
    THEN RStrip(SubSeq(s, 1, Len(s) - 1)) ELSE s

Strip(s) == RStrip(LStrip(s))

(***************************************************************************)
(* Target paths.                                                           *)
(***************************************************************************)
NoName == <<>>
Absent == [kind |-> "none", src |-> NoName]
Original == [kind |-> "file", src |-> NoName]
LinkTo(n) == [kind |-> "link", src |-> n]
CopyOf(n) == [kind |-> "copy", src |-> n]

\* Path.exists() follows a symbolic link: a dangling link does not exist.
Exists(t) ==
    \/ t.kind \in {"file", "copy"}
    \/ t.kind = "link" /\ t.src \in vhdx

(***************************************************************************)
(* Queue file and reconciliation.                                          *)
(***************************************************************************)
\* get_valid_profiles, given the order in which glob lists the disk images.
get_valid_profiles(order) ==
    LET HasDat(n) == n \in dat
    IN SelectSeq(order, HasDat)

\* read_queue: the stripped non-blank lines of the file.
read_queue(file) ==
    LET NonBlank(l) == Strip(l) # <<>>
        kept == SelectSeq(file, NonBlank)
    IN [i \in 1..Len(kept) |-> Strip(kept[i])]

\* write_queue: one line per entry, written as it is.
write_queue(queue) == queue

\* The filter left out.
RemoveInvalid_KeepAll(queue, valid) == queue

\* "Remove invalid profiles"
RemoveInvalid(queue, valid) ==
    LET IsValid(n) == n \in Range(valid)
    IN SelectSeq(queue, IsValid)

\* New profiles put at the front instead of the end.
RECURSIVE AddNew_AtFront(_, _)
AddNew_AtFront(queue, valid) ==
    IF valid = <<>> THEN queue
    ELSE AddNew_AtFront(IF Head(valid) \in Range(queue) THEN queue
                        ELSE <<Head(valid)>> \o queue,
                        Tail(valid))

\* "Add new profiles"
RECURSIVE AddNew(_, _)
AddNew(queue, valid) ==
    IF valid = <<>> THEN queue
    ELSE AddNew(IF Head(valid) \in Range(queue) THEN queue
                ELSE Append(queue, Head(valid)),
                Tail(valid))

\* The fallback left out.
SeedDefault_None(queue) == queue

\* The fallback to a single default name.
SeedDefault(queue) == IF queue = <<>> THEN <<DefaultProfile>> ELSE queue

\* The list update_queue computes from the queue it read and the valid list.
Reconcile(queue, valid) ==
    SeedDefault(AddNew(RemoveInvalid(queue, valid), valid))

\* The rotation forgotten.
Rotate_Stay(queue, profile) == queue

\* The queue head moved to the tail, as lines 186-187 do it.
Rotate(queue, profile) == Append(Remove(queue, profile), profile)

\* Line 168: one of the chosen profile's two files is not there.
ProfileFilesMissing_VhdxOnly(profile) == profile \notin vhdx

ProfileFilesMissing(profile) == profile \notin vhdx \/ profile \notin dat

\* The profiles both of whose files exist.
ValidNames == vhdx \cap dat


\* Commands issued to the subsystem and the process manager: the kinds, and
\* the number of launch requests.
NoCommands == [kinds |-> {}, launches |-> 0]

(***************************************************************************)
(* Initial state: the subsystem is installed and running, no invocation    *)
(* has begun.  The profiles directory, if it exists, holds any disk images,*)
(* a settings file for any of them, and any queue file.                    *)
(***************************************************************************)
Init ==
    /\ dir_exists \in BOOLEAN
    /\ vhdx \in (IF dir_exists THEN SUBSET Names ELSE {{}})
    /\ dat \in SUBSET vhdx
    /\ queue_file \in (IF dir_exists THEN BoundedSeq(QueueLines, MaxInitQueue)
                       ELSE {<<>>})
    /\ marker = NoName
    /\ target_vhdx = Original
    /\ target_dat = Original
    /\ client_running = TRUE
    /\ settings_running = TRUE
    /\ pc = [p \in Procs |-> "idle"]
    /\ err = [p \in Procs |-> ""]
    /\ valid_profiles = [p \in Procs |-> <<>>]
    /\ current_queue = [p \in Procs |-> <<>>]
    /\ next_profile = [p \in Procs |-> NoName]
    /\ attempt = [p \in Procs |-> 0]
    /\ heartbeat = [p \in Procs |-> "none"]
    /\ is_admin = [p \in Procs |-> FALSE]
    /\ warned = [p \in Procs |-> FALSE]
    /\ issued = [p \in Procs |-> NoCommands]
    /\ last_check = [p \in Procs |-> "none"]
    /\ overlapped = FALSE
    /\ runs = 0
    /\ externals = 0
    /\ h_start = [p \in Procs |-> <<Original, Original>>]
    /\ h_prior = [p \in Procs |-> <<>>]
    /\ h_written = [p \in Procs |-> <<>>]
    /\ h_read = [p \in Procs |-> <<>>]
    /\ hist_queue0 = read_queue(queue_file)
    /\ hist_selected = <<>>

Terminal == {"idle", "done", "failed"}

\* The exit code of a finished invocation (main, lines 240 and 245; a failure
\* inside __init__ ends in an uncaught error, which also exits with 1).
ExitCode(p) == IF pc[p] = "done" THEN 0 ELSE 1

\* The run p has issued one more command of the given kind.
Issue(p, kind) ==
    [issued EXCEPT ![p].kinds = issued[p].kinds \cup {kind}]

\* An invocation ends in failure e (the exception reaches main, exit code 1).
Fail(p, e) ==
    /\ pc' = [pc EXCEPT ![p] = "failed"]
    /\ err' = [err EXCEPT ![p] = e]

Goto(p, label) ==
    /\ pc' = [pc EXCEPT ![p] = label]
    /\ UNCHANGED err

(***************************************************************************)
(* main() and WSAProfileSwitcher.__init__: a new invocation.  The logging  *)
(* set-up opens the log file inside the profiles directory, which fails    *)
(* when the directory does not exist.                                      *)
(***************************************************************************)
Begin(p) ==
    /\ pc[p] \in Terminal
    /\ runs < MaxRuns
    /\ runs' = runs + 1
    /\ pc' = [pc EXCEPT ![p] = IF dir_exists THEN "check_admin" ELSE "failed"]
    /\ err' = [err EXCEPT ![p] = IF dir_exists THEN "" ELSE "init"]
    /\ valid_profiles' = [valid_profiles EXCEPT ![p] = <<>>]
    /\ current_queue' = [current_queue EXCEPT ![p] = <<>>]
    /\ next_profile' = [next_profile EXCEPT ![p] = NoName]
    /\ attempt' = [attempt EXCEPT ![p] = 0]
    /\ heartbeat' = [heartbeat EXCEPT ![p] = "none"]
    /\ \E admin \in BOOLEAN : is_admin' = [is_admin EXCEPT ![p] = admin]
    /\ warned' = [warned EXCEPT ![p] = FALSE]
    /\ issued' = [issued EXCEPT ![p] = NoCommands]
    /\ last_check' = [last_check EXCEPT ![p] = "none"]
    /\ overlapped' = (overlapped \/ \E q \in Procs \ {p} : pc[q] \notin Terminal)
    /\ h_start' = [h_start EXCEPT ![p] = <<target_vhdx, target_dat>>]
    /\ h_prior' = [h_prior EXCEPT ![p] = <<>>]
    /\ h_written' = [h_written EXCEPT ![p] = <<>>]
    /\ h_read' = [h_read EXCEPT ![p] = <<>>]
    /\ UNCHANGED <<env_vars, externals, hist_queue0, hist_selected>>

\* The privilege check ignored.
CheckAdmin_Ignored(p) ==
    /\ pc[p] = "check_admin"
    /\ dir_exists' = TRUE
    /\ Goto(p, "update_queue")
    /\ UNCHANGED <<vhdx, dat, queue_file, marker, target_vhdx, target_dat,
                   client_running, settings_running, valid_profiles,
                   current_queue, next_profile, attempt, heartbeat, aux_vars,
                   hist_vars>>

\* switch_profile, lines 146-151: the privilege check, then mkdir.
CheckAdmin(p) ==
    /\ pc[p] = "check_admin"
    /\ IF is_admin[p]
       THEN /\ dir_exists' = TRUE
            /\ Goto(p, "update_queue")
       ELSE /\ Fail(p, "admin")
            /\ UNCHANGED dir_exists
    /\ UNCHANGED <<vhdx, dat, queue_file, marker, target_vhdx, target_dat,
                   client_running, settings_running, valid_profiles,
                   current_queue, next_profile, attempt, heartbeat, aux_vars,
                   hist_vars>>

\* update_queue, lines 75-91.
UpdateQueue(p) ==
    /\ pc[p] = "update_queue"
    /\ \E order \in Orderings(vhdx) :
        LET valid == get_valid_profiles(order)
            prior == read_queue(queue_file)
            new_queue == Reconcile(prior, valid)
        IN /\ valid_profiles' = [valid_profiles EXCEPT ![p] = valid]
           /\ queue_file' = write_queue(new_queue)
           /\ h_prior' = [h_prior EXCEPT ![p] = prior]
           /\ h_written' = [h_written EXCEPT ![p] = new_queue]
           /\ warned' = [warned EXCEPT ![p] =
                             AddNew(RemoveInvalid(prior, valid), valid) = <<>>]
    /\ Goto(p, "select")
    /\ UNCHANGED <<dir_exists, vhdx, dat, marker, target_vhdx, target_dat,
                   client_running, settings_running, current_queue,
                   next_profile, attempt, heartbeat, runs, externals, h_start,
                   h_read, hist_queue0, hist_selected, is_admin, issued,
                   last_check, overlapped>>

\* switch_profile, lines 155-169: read the queue, take its head, check files.
\* update_queue has returned: its locals are gone.
SelectNext(p) ==
    /\ pc[p] = "select"
    /\ LET queue == read_queue(queue_file)
       IN /\ current_queue' = [current_queue EXCEPT ![p] = queue]
          /\ h_read' = [h_read EXCEPT ![p] = queue]
          /\ IF queue = <<>>
             THEN /\ Fail(p, "no_profiles")
                  /\ UNCHANGED next_profile
             ELSE /\ next_profile' = [next_profile EXCEPT ![p] = Head(queue)]
                  /\ IF ProfileFilesMissing(Head(queue))
                     THEN Fail(p, "missing")
                     ELSE Goto(p, "stop_requests")
    /\ valid_profiles' = [valid_profiles EXCEPT ![p] = <<>>]
    /\ h_prior' = [h_prior EXCEPT ![p] = <<>>]
    /\ h_written' = [h_written EXCEPT ![p] = <<>>]
    /\ warned' = [warned EXCEPT ![p] = FALSE]
    /\ UNCHANGED <<env_vars, attempt, heartbeat, runs, externals, h_start,
                   hist_queue0, hist_selected, is_admin, issued, last_check,
                   overlapped>>

(***************************************************************************)
(* stop_wsa.  A command "works" when the process it targets is gone by the *)
(* time the following sleep ends; whether it works is the environment's    *)
(* choice.                                                                 *)
(***************************************************************************)
\* lines 94-111: shutdown, kill WsaSettings.exe, shutdown again.
StopRequests(p) ==
    /\ pc[p] = "stop_requests"
    /\ \E shutdown1, kill_settings, shutdown2 \in BOOLEAN :
        /\ client_running' = (client_running /\ ~shutdown1 /\ ~shutdown2)
        /\ settings_running' = (settings_running /\ ~kill_settings)
    /\ issued' = [issued EXCEPT
                     ![p].kinds = issued[p].kinds \cup {"shutdown", "taskkill"}]
    /\ Goto(p, "stop_verify")
    /\ UNCHANGED <<dir_exists, vhdx, dat, queue_file, marker, target_vhdx,
                   target_dat, valid_profiles, current_queue, next_profile,
                   attempt, heartbeat, hist_vars, is_admin, warned, last_check,
                   overlapped>>

\* lines 113-123: each process still listed is force-terminated.
StopVerify(p) ==
    /\ pc[p] = "stop_verify"
    /\ \E kill_client, kill_settings \in BOOLEAN :
        /\ client_running' = (client_running /\ ~kill_client)
        /\ settings_running' = (settings_running /\ ~kill_settings)
    /\ issued' = IF client_running \/ settings_running
                 THEN Issue(p, "taskkill") ELSE issued
    /\ Goto(p, "stop_final")
    /\ UNCHANGED <<dir_exists, vhdx, dat, queue_file, marker, target_vhdx,
                   target_dat, valid_profiles, current_queue, next_profile,
                   attempt, heartbeat, hist_vars, is_admin, warned, last_check,
                   overlapped>>

\* The final check left out: the swap follows whatever is still listed.
StopFinalCheck_NoAbort(p) ==
    /\ pc[p] = "stop_final"
    /\ Goto(p, "swap_remove")
    /\ UNCHANGED <<env_vars, valid_profiles, current_queue, next_profile,
                   attempt, heartbeat, hist_vars, aux_vars>>

\* lines 125-131: the final check looks for WsaClient.exe.
StopFinalCheck(p) ==
    /\ pc[p] = "stop_final"
    /\ IF client_running THEN Fail(p, "stop") ELSE Goto(p, "swap_remove")
    /\ UNCHANGED <<env_vars, valid_profiles, current_queue, next_profile,
                   attempt, heartbeat, hist_vars, aux_vars>>

(***************************************************************************)
(* The swap, lines 174-183.                                                *)
(***************************************************************************)
\* lines 174-178: unlink each target that exists.
RemoveTargets(p) ==
    /\ pc[p] = "swap_remove"
    /\ target_vhdx' = IF Exists(target_vhdx) THEN Absent ELSE target_vhdx
    /\ target_dat' = IF Exists(target_dat) THEN Absent ELSE target_dat
    /\ Goto(p, "swap_link")
    /\ UNCHANGED <<dir_exists, vhdx, dat, queue_file, marker, client_running,
                   settings_running, valid_profiles, current_queue,
                   next_profile, attempt, heartbeat, hist_vars, aux_vars>>

\* The error of os.symlink swallowed.
LinkAndCopy_IgnoreError(p) ==
    /\ pc[p] = "swap_link"
    /\ IF target_vhdx.kind # "none"
       THEN UNCHANGED <<target_vhdx, target_dat>>
       ELSE /\ target_vhdx' = LinkTo(next_profile[p])
            /\ target_dat' = CopyOf(next_profile[p])
    /\ Goto(p, "persist")
    /\ UNCHANGED <<dir_exists, vhdx, dat, queue_file, marker, client_running,
                   settings_running, valid_profiles, current_queue,
                   next_profile, attempt, heartbeat, hist_vars, aux_vars>>

\* lines 180-183: os.symlink fails when the path is still taken (a dangling
\* link that exists() did not see); otherwise link and copy.
LinkAndCopy(p) ==
    /\ pc[p] = "swap_link"
    /\ IF target_vhdx.kind # "none"
       THEN /\ Fail(p, "swap")
            /\ UNCHANGED <<target_vhdx, target_dat>>
       ELSE /\ target_vhdx' = LinkTo(next_profile[p])
            /\ target_dat' = CopyOf(next_profile[p])
            /\ Goto(p, "persist")
    /\ UNCHANGED <<dir_exists, vhdx, dat, queue_file, marker, client_running,
                   settings_running, valid_profiles, current_queue,
                   next_profile, attempt, heartbeat, hist_vars, aux_vars>>

\* Queue and marker not written at this point.
Persist_Skip(p) ==
    /\ pc[p] = "persist"
    /\ hist_selected' = Append(hist_selected, next_profile[p])
    /\ Goto(p, "start")
    /\ UNCHANGED <<env_vars, valid_profiles, current_queue, next_profile,
                   attempt, heartbeat, runs, externals, h_start, h_prior,
                   h_written, h_read, hist_queue0, aux_vars>>

\* lines 185-192: rotate the queue, write it, write the marker.
Persist(p) ==
    /\ pc[p] = "persist"
    /\ LET rotated == Rotate(current_queue[p], next_profile[p])
       IN /\ current_queue' = [current_queue EXCEPT ![p] = rotated]
          /\ queue_file' = write_queue(rotated)
    /\ marker' = next_profile[p]
    /\ hist_selected' = Append(hist_selected, next_profile[p])
    /\ Goto(p, "start")
    /\ UNCHANGED <<dir_exists, vhdx, dat, target_vhdx, target_dat,
                   client_running, settings_running, valid_profiles,
                   next_profile, attempt, heartbeat, runs, externals, h_start,
                   h_prior, h_written, h_read, hist_queue0, aux_vars>>

(***************************************************************************)
(* start_wsa, lines 133-142.  The check is on tasklist's return code, which*)
(* the environment chooses independently of the client being listed.       *)
(***************************************************************************)
StartWsa(p) ==
    /\ pc[p] = "start"
    /\ issued' = Issue(p, "start")
    /\ \E outcome \in {"popen_error", "tasklist_failed", "tasklist_ok"} :
        IF outcome = "popen_error"
        THEN /\ Fail(p, "start")
             /\ UNCHANGED client_running
        ELSE /\ \E up \in BOOLEAN : client_running' = up
             /\ IF outcome = "tasklist_ok"
                THEN Goto(p, "launch") ELSE Fail(p, "start")
    /\ UNCHANGED <<dir_exists, vhdx, dat, queue_file, marker, target_vhdx,
                   target_dat, settings_running, valid_profiles, current_queue,
                   next_profile, attempt, heartbeat, hist_vars, is_admin, warned,
                   last_check, overlapped>>

(***************************************************************************)
(* launch_google_photos, lines 211-232: one iteration of the loop.         *)
(***************************************************************************)
\* The loop variable never advanced: the launch is retried without end.
LaunchAttempt_NoBound(p) ==
    /\ pc[p] = "launch"
    /\ issued' = Issue(p, "launch")
    /\ \E outcome \in {"exception", "tasklist_failed", "tasklist_ok"} :
        /\ last_check' = [last_check EXCEPT ![p] = outcome]
        /\ IF outcome = "tasklist_ok"
           THEN Goto(p, "heartbeat") ELSE UNCHANGED <<pc, err>>
    /\ UNCHANGED <<env_vars, valid_profiles, current_queue, next_profile,
                   attempt, heartbeat, hist_vars, is_admin, warned, overlapped>>

\* A fourth attempt: the loop bound off by one.
LaunchAttempt_OneMore(p) ==
    /\ pc[p] = "launch"
    /\ issued' = [issued EXCEPT ![p].kinds = issued[p].kinds \cup {"launch"},
                                ![p].launches = issued[p].launches + 1]
    /\ \E outcome \in {"exception", "tasklist_failed", "tasklist_ok"} :
        /\ last_check' = [last_check EXCEPT ![p] = outcome]
        /\ IF outcome = "tasklist_ok"
           THEN /\ Goto(p, "heartbeat")
                /\ UNCHANGED attempt
           ELSE IF attempt[p] < max_retries
           THEN /\ attempt' = [attempt EXCEPT ![p] = attempt[p] + 1]
                /\ UNCHANGED <<pc, err>>
           ELSE /\ Fail(p, "launch")
                /\ UNCHANGED attempt
    /\ UNCHANGED <<env_vars, valid_profiles, current_queue, next_profile,
                   heartbeat, hist_vars, is_admin, warned, overlapped>>

LaunchAttempt(p) ==
    /\ pc[p] = "launch"
    /\ issued' = [issued EXCEPT ![p].kinds = issued[p].kinds \cup {"launch"},
                                ![p].launches = issued[p].launches + 1]
    /\ \E outcome \in {"exception", "tasklist_failed", "tasklist_ok"} :
        /\ last_check' = [last_check EXCEPT ![p] = outcome]
        /\ IF outcome = "tasklist_ok"
           THEN /\ Goto(p, "heartbeat")
                /\ UNCHANGED attempt
           ELSE IF attempt[p] < max_retries - 1
           THEN /\ attempt' = [attempt EXCEPT ![p] = attempt[p] + 1]
                /\ UNCHANGED <<pc, err>>
           ELSE /\ Fail(p, "launch")
                /\ UNCHANGED attempt
    /\ UNCHANGED <<env_vars, valid_profiles, current_queue, next_profile,
                   heartbeat, hist_vars, is_admin, warned, overlapped>>

\* A failed completion signal ends the run in failure.
Heartbeat_Fatal(p) ==
    /\ pc[p] = "heartbeat"
    /\ \E sent \in BOOLEAN :
        /\ heartbeat' = [heartbeat EXCEPT ![p] = IF sent THEN "sent" ELSE "failed"]
        /\ IF sent THEN Goto(p, "done") ELSE Fail(p, "heartbeat")
    /\ UNCHANGED <<env_vars, valid_profiles, current_queue, next_profile,
                   attempt, hist_vars, aux_vars>>

\* lines 198-205: the completion signal; its failure is logged and swallowed.
Heartbeat(p) ==
    /\ pc[p] = "heartbeat"
    /\ \E sent \in BOOLEAN :
        heartbeat' = [heartbeat EXCEPT ![p] = IF sent THEN "sent" ELSE "failed"]
    /\ Goto(p, "done")
    /\ UNCHANGED <<env_vars, valid_profiles, current_queue, next_profile,
                   attempt, hist_vars, aux_vars>>

(***************************************************************************)
(* The environment: between runs somebody adds or deletes one file of the  *)
(* profiles directory.                                                     *)
(***************************************************************************)
ExternalChange ==
    /\ \A p \in Procs : pc[p] \in Terminal
    /\ dir_exists
    /\ externals < MaxExternal
    /\ externals' = externals + 1
    /\ \E n \in Names :
        \/ vhdx' = (IF n \in vhdx THEN vhdx \ {n} ELSE vhdx \cup {n})
           /\ UNCHANGED dat
        \/ dat' = (IF n \in dat THEN dat \ {n} ELSE dat \cup {n})
           /\ UNCHANGED vhdx
    /\ hist_queue0' = read_queue(queue_file)
    /\ hist_selected' = <<>>
    /\ UNCHANGED <<dir_exists, queue_file, marker, target_vhdx, target_dat,
                   client_running, settings_running, local_vars, aux_vars,
                   runs, h_start, h_prior, h_written, h_read>>

Step(p) ==
    \/ Begin(p)
    \/ CheckAdmin(p)
    \/ UpdateQueue(p)
    \/ SelectNext(p)
    \/ StopRequests(p)
    \/ StopVerify(p)
    \/ StopFinalCheck(p)
    \/ RemoveTargets(p)
    \/ LinkAndCopy(p)
    \/ Persist(p)
    \/ StartWsa(p)
    \/ LaunchAttempt(p)
    \/ Heartbeat(p)

\* Runs are scheduled one after another: only invocation 1 is ever active.
Next == Step(1) \/ ExternalChange

Spec == Init /\ [][Next]_vars

\* A step of a run in progress.
Continue(p) ==
    \/ CheckAdmin(p)
    \/ UpdateQueue(p)
    \/ SelectNext(p)
    \/ StopRequests(p)
    \/ StopVerify(p)
    \/ StopFinalCheck(p)
    \/ RemoveTargets(p)
    \/ LinkAndCopy(p)
    \/ Persist(p)
    \/ StartWsa(p)
    \/ LaunchAttempt(p)
    \/ Heartbeat(p)

\* The same runs, with every external command and every sleep returning: a
\* run in progress takes its next step.
\* Termination is checked from a first run on a profiles directory holding
\* one complete profile and no queue file; external edits between the runs
\* bring in the other directory contents.
InitLive ==
    /\ Init
    /\ dir_exists
    /\ queue_file = <<>>
    /\ vhdx = {<<"p", "2">>}
    /\ dat = vhdx

SpecLive == InitLive /\ [][Next]_vars /\ WF_vars(Continue(1))

(***************************************************************************)
(* Overlapping invocations.  Nothing in main or switch_profile takes a     *)
(* lock, so the steps of two invocations interleave.  The two writes of    *)
(* lines 185-192, one step of a run that has the files to itself, are two  *)
(* steps here: another invocation can act between them.                    *)
(***************************************************************************)
\* The queue left unrotated by the first write.
WriteRotated_Stay(p) ==
    /\ pc[p] = "persist"
    /\ queue_file' = write_queue(current_queue[p])
    /\ Goto(p, "save_current")
    /\ UNCHANGED <<dir_exists, vhdx, dat, marker, target_vhdx, target_dat,
                   client_running, settings_running, valid_profiles,
                   current_queue, next_profile, attempt, heartbeat, aux_vars,
                   hist_vars>>

\* lines 185-188: rotate the queue and write it.
WriteRotated(p) ==
    /\ pc[p] = "persist"
    /\ LET rotated == Rotate(current_queue[p], next_profile[p])
       IN /\ current_queue' = [current_queue EXCEPT ![p] = rotated]
          /\ queue_file' = write_queue(rotated)
    /\ Goto(p, "save_current")
    /\ UNCHANGED <<dir_exists, vhdx, dat, marker, target_vhdx, target_dat,
                   client_running, settings_running, valid_profiles,
                   next_profile, attempt, heartbeat, aux_vars, hist_vars>>

\* lines 190-192: write the marker.
SaveCurrent(p) ==
    /\ pc[p] = "save_current"
    /\ marker' = next_profile[p]
    /\ hist_selected' = Append(hist_selected, next_profile[p])
    /\ Goto(p, "start")
    /\ UNCHANGED <<dir_exists, vhdx, dat, queue_file, target_vhdx, target_dat,
                   client_running, settings_running, valid_profiles,
                   current_queue, next_profile, attempt, heartbeat, runs,
                   externals, h_start, h_prior, h_written, h_read, hist_queue0,
                   aux_vars>>

StepConc(p) ==
    \/ Begin(p)
    \/ CheckAdmin(p)
    \/ UpdateQueue(p)
    \/ SelectNext(p)
    \/ StopRequests(p)
    \/ StopVerify(p)
    \/ StopFinalCheck(p)
    \/ RemoveTargets(p)
    \/ LinkAndCopy(p)
    \/ WriteRotated(p)
    \/ SaveCurrent(p)
    \/ StartWsa(p)
    \/ LaunchAttempt(p)
    \/ Heartbeat(p)

\* Two invocations started by overlapping triggers on a directory of two
\* complete profiles, with the queue file absent or left by an earlier run.
InitConc ==
    /\ Init
    /\ dir_exists
    /\ vhdx = {DefaultProfile, <<"p", "2">>}
    /\ dat = vhdx
    /\ queue_file \in {<<>>, <<DefaultProfile, <<"p", "2">>>>}

NextConc == \E p \in Procs : StepConc(p)

SpecConc == InitConc /\ [][NextConc]_vars


(***************************************************************************)
(* Properties.                                                             *)
(***************************************************************************)
\* The positions of a run after the file check has passed, up to the swap.
BeforePersist == {"stop_requests", "stop_verify", "stop_final", "swap_remove",
                  "swap_link", "persist"}

\* The positions of a run after queue and marker have been written.
AfterPersist == {"start", "launch", "heartbeat", "done"}

\* The queue read at line 155 with its head moved to the tail.
HeadToTail(queue) == Tail(queue) \o <<Head(queue)>>

\* C1: when the final check of stop_wsa still finds the client listed, the
\* run fails with the stop failure, the two target paths are what they were
\* when the run began, and the queue file is the one update_queue left (not
\* rotated).
C1_StopFailureAborts ==
    [][\A p \in Procs :
        (pc[p] = "stop_final" /\ client_running) =>
            /\ pc'[p] = "failed"
            /\ err'[p] = "stop"
            /\ target_vhdx' = h_start[p][1]
            /\ target_dat' = h_start[p][2]
            /\ queue_file' = queue_file
            /\ read_queue(queue_file') = h_read[p]]_vars

C1_Witness ==
    /\ pc[1] = "failed"
    /\ err[1] = "stop"
    /\ client_running
    /\ Len(h_read[1]) >= 2
    /\ h_read[1][1] # h_read[1][2]
    /\ target_vhdx = Original

\* C2: when the target files start being removed, neither WsaClient.exe nor
\* WsaSettings.exe is in the process list.
C2_NoProcessAtSwap ==
    \A p \in Procs :
        pc[p] = "swap_remove" => ~client_running /\ ~settings_running

\* C3: from a persisted queue that holds exactly the valid profiles, each
\* once, N runs that complete the swap select the N profiles in queue order
\* and leave the persisted queue equal to the original one.
CleanCycle ==
    /\ hist_queue0 # <<>>
    /\ IsDistinct(hist_queue0)
    /\ Range(hist_queue0) = ValidNames

C3_FifoCycle ==
    (CleanCycle /\ Len(hist_selected) = Len(hist_queue0)) =>
        /\ hist_selected = hist_queue0
        /\ read_queue(queue_file) = hist_queue0

C3_Witness ==
    /\ CleanCycle
    /\ Len(hist_queue0) = 2
    /\ Len(hist_selected) = 2
    /\ pc[1] = "done"

\* C4: the profile chosen is the head of the queue read after reconciliation,
\* and the queue written after the swap is that queue with its head moved to
\* the tail.
C4_HeadToTail ==
    \A p \in Procs :
        /\ pc[p] \in BeforePersist \cup AfterPersist =>
            /\ h_read[p] # <<>>
            /\ next_profile[p] = Head(h_read[p])
        /\ pc[p] = "start" => queue_file = HeadToTail(h_read[p])

C4_Witness ==
    /\ pc[1] = "start"
    /\ Len(h_read[1]) = 3
    /\ h_read[1][1] # h_read[1][2]

\* C5: a run fails with the launch error only on the third attempt, and then
\* the queue file holds the rotated queue and the marker names the profile
\* that was swapped in.
C5_LaunchFailureKeepsRotation ==
    \A p \in Procs :
        (pc[p] = "failed" /\ err[p] = "launch") =>
            /\ attempt[p] = max_retries - 1
            /\ target_vhdx = LinkTo(next_profile[p])
            /\ target_dat = CopyOf(next_profile[p])
            /\ queue_file = HeadToTail(h_read[p])
            /\ marker = next_profile[p]

C5_Witness ==
    /\ pc[1] = "failed"
    /\ err[1] = "launch"
    /\ Len(h_read[1]) >= 2
    /\ h_read[1][1] # h_read[1][2]
    /\ queue_file # h_read[1]

\* C6 (as claimed): a run that swapped and then failed in start_wsa or in
\* launch_google_photos leaves the queue file un-rotated.
C6_UnrotatedAfterLateFailure ==
    \A p \in Procs :
        (pc[p] = "failed" /\ err[p] \in {"start", "launch"}) =>
            read_queue(queue_file) = h_read[p]

\* C6 (amended): queue and marker are written right after the swap, before
\* the subsystem is started: up to that point the queue file is un-rotated,
\* from then on, also when the run fails in start_wsa or in
\* launch_google_photos, it is rotated and the marker names the profile that
\* was swapped in.
C6_PersistedBeforeStart ==
    \A p \in Procs :
        /\ pc[p] \in BeforePersist => read_queue(queue_file) = h_read[p]
        /\ (\/ pc[p] \in AfterPersist
            \/ pc[p] = "failed" /\ err[p] \in {"start", "launch"}) =>
                /\ queue_file = HeadToTail(h_read[p])
                /\ marker = next_profile[p]

C6_Witness ==
    /\ pc[1] = "failed"
    /\ err[1] = "start"
    /\ Len(h_read[1]) >= 2
    /\ read_queue(queue_file) # h_read[1]
    /\ marker = h_read[1][1]

\* C7 (as claimed): every name in the queue update_queue wrote is a valid
\* profile.
C7_WrittenQueueValid ==
    \A p \in Procs :
        pc[p] = "select" => Range(queue_file) \subseteq ValidNames

\* C7 (amended): every name in the queue update_queue wrote is a valid
\* profile, unless no valid profile exists: then the queue written is the
\* single default name.
C7_WrittenQueueValidOrDefault ==
    \A p \in Procs :
        pc[p] = "select" =>
            IF ValidNames = {}
            THEN queue_file = <<DefaultProfile>>
            ELSE Range(queue_file) \subseteq ValidNames

C7_Witness ==
    /\ pc[1] = "select"
    /\ ValidNames # {}
    /\ \E i \in 1..Len(h_prior[1]) : h_prior[1][i] \notin ValidNames

\* C8 (as claimed): next_profile never names a profile one of whose two
\* files is absent.
C8_NextProfileValid ==
    [][\A p \in Procs :
        (next_profile'[p] # next_profile[p] /\ next_profile'[p] # NoName) =>
            next_profile'[p] \in vhdx' \cap dat']_vars

\* C8 (amended): a profile one of whose two files is absent is never
\* activated: a run goes on to stop the subsystem and swap only with a
\* next_profile both of whose files exist, and the link and the copy it
\* creates are of such a profile.
C8_ActivatedProfileValid ==
    \A p \in Procs :
        /\ pc[p] \in BeforePersist \cup {"start", "launch", "heartbeat"} =>
            next_profile[p] \in ValidNames
        /\ pc[p] \in {"persist", "start", "launch", "heartbeat"} =>
            /\ target_vhdx = LinkTo(next_profile[p])
            /\ target_dat = CopyOf(next_profile[p])

C8_Witness ==
    /\ pc[1] = "persist"
    /\ vhdx \ dat # {}
    /\ target_vhdx = LinkTo(next_profile[1])

\* C9: update_queue run again on the queue it wrote, with the same valid
\* list, writes the same queue.
C9_Idempotent ==
    \A p \in Procs :
        pc[p] = "select" =>
            write_queue(Reconcile(read_queue(queue_file), valid_profiles[p]))
                = queue_file

\* The members of the valid list that the prior queue did not hold.
NewProfiles(queue, valid) ==
    LET IsNew(n) == n \notin Range(queue)
    IN SelectSeq(valid, IsNew)

\* The prior queue without its stale entries, then the new profiles.
KeptThenNew(queue, valid) ==
    LET IsValid(n) == n \in Range(valid)
    IN SelectSeq(queue, IsValid) \o NewProfiles(queue, valid)

\* C10 (as claimed): the queue update_queue wrote is the prior queue without
\* the entries that are not valid, followed by the valid profiles the prior
\* queue did not hold.
C10_KeptThenNew ==
    \A p \in Procs :
        pc[p] = "select" =>
            h_written[p] = KeptThenNew(h_prior[p], valid_profiles[p])

\* C10 (amended): the same, unless that list is empty: then the queue written
\* is the single default name.
C10_KeptThenNewOrDefault ==
    \A p \in Procs :
        pc[p] = "select" =>
            LET expected == KeptThenNew(h_prior[p], valid_profiles[p])
            IN /\ queue_file = h_written[p]
               /\ h_written[p] = IF expected = <<>> THEN <<DefaultProfile>>
                                 ELSE expected

C10_Witness ==
    /\ pc[1] = "select"
    /\ Len(h_prior[1]) = 2
    /\ h_prior[1][1] \notin ValidNames
    /\ h_prior[1][2] \in ValidNames
    /\ NewProfiles(h_prior[1], valid_profiles[1]) # <<>>
    /\ h_written[1][1] = h_prior[1][2]


\* C11: update_queue never writes an empty queue: with no valid profile it
\* writes exactly the default name and logs the warning, with a valid profile
\* it writes a non-empty queue without the warning.
C11_NeverEmpty ==
    \A p \in Procs :
        pc[p] = "select" =>
            /\ queue_file = h_written[p]
            /\ IF valid_profiles[p] = <<>>
               THEN queue_file = <<DefaultProfile>> /\ warned[p]
               ELSE Len(queue_file) >= 1 /\ ~warned[p]

C11_Witness ==
    /\ pc[1] = "select"
    /\ valid_profiles[1] = <<>>
    /\ Len(h_prior[1]) = 2
    /\ queue_file = <<DefaultProfile>>
    /\ DefaultProfile \notin Range(h_prior[1])

\* C12: every step of a run without administrator privileges leaves the
\* queue file, the marker, the two target paths, the profiles directory and
\* the processes as they are and issues no command; the privilege check ends
\* the run in failure.
C12_NoPrivilegeNoEffect ==
    [][\A p \in Procs :
        (~is_admin'[p] /\ pc'[p] # pc[p]) =>
            /\ env_vars' = env_vars
            /\ issued'[p] = NoCommands
            /\ pc'[p] \in {"check_admin", "failed"}
            /\ pc[p] = "check_admin" =>
                   pc'[p] = "failed" /\ err'[p] = "admin" /\ ExitCode(p)' = 1]_vars

C12_Witness ==
    /\ pc[1] = "failed"
    /\ err[1] = "admin"
    /\ ~is_admin[1]
    /\ runs = 2
    /\ marker # NoName
    /\ Len(queue_file) = 2

\* C13: a run reaches the app launch only with the client process in the
\* process list.
C13_StartVerified ==
    \A p \in Procs :
        (pc[p] = "launch" /\ attempt[p] = 0) => client_running

\* C14: launch_google_photos issues at most 3 launch requests, returns at the
\* first attempt whose check passes, and fails exactly when the check of the
\* third attempt has not passed either.
C14_Inv ==
    \A p \in Procs :
        /\ issued[p].launches <= max_retries
        /\ pc[p] = "launch" =>
            /\ issued[p].launches = attempt[p]
            /\ attempt[p] < max_retries
            /\ attempt[p] > 0 => last_check[p] # "tasklist_ok"
        /\ pc[p] \in {"heartbeat", "done"} =>
            /\ last_check[p] = "tasklist_ok"
            /\ issued[p].launches = attempt[p] + 1
        /\ (pc[p] = "failed" /\ err[p] = "launch") =>
            /\ last_check[p] # "tasklist_ok"
            /\ issued[p].launches = max_retries

C14_Step ==
    \A p \in Procs :
        pc[p] = "launch" =>
            /\ last_check'[p] = "tasklist_ok" <=> pc'[p] = "heartbeat"
            /\ (pc'[p] = "failed" /\ err'[p] = "launch") <=>
                  (last_check'[p] # "tasklist_ok" /\ attempt[p] = max_retries - 1)
            /\ pc'[p] = "launch" =>
                  attempt'[p] = attempt[p] + 1 /\ last_check'[p] # "tasklist_ok"

C14_BoundedRetry == []C14_Inv /\ [][C14_Step]_vars

C14_Witness ==
    /\ pc[1] = "heartbeat"
    /\ issued[1].launches = 3
    /\ attempt[1] = 2

\* C15: the completion signal, sent or failed, ends the run in success (exit
\* code 0) and leaves the queue file, the marker and the two target paths as
\* they are.
C15_HeartbeatNotFatal ==
    [][\A p \in Procs :
        pc[p] = "heartbeat" =>
            /\ pc'[p] = "done"
            /\ ExitCode(p)' = 0
            /\ err'[p] = ""
            /\ heartbeat'[p] \in {"sent", "failed"}
            /\ env_vars' = env_vars]_vars

C15_Witness ==
    /\ pc[1] = "done"
    /\ heartbeat[1] = "failed"
    /\ marker = next_profile[1]
    /\ target_vhdx = LinkTo(next_profile[1])

\* The state of the activation sequence a position belongs to.
Phase(label) ==
    CASE label \in {"idle", "check_admin", "update_queue", "select"} -> "Idle"
      [] label \in {"stop_requests", "stop_verify", "stop_final"} -> "Stopping"
      [] label \in {"swap_remove", "swap_link", "persist"} -> "Swapping"
      [] label = "start" -> "Starting"
      [] label = "launch" -> "LaunchingApp"
      [] label \in {"heartbeat", "done"} -> "Done"
      [] label = "failed" -> "Failed"

\* The order of the states within one run.
PhaseOrder ==
    { <<"Idle", "Stopping">>, <<"Stopping", "Swapping">>,
      <<"Swapping", "Starting">>, <<"Starting", "LaunchingApp">>,
      <<"LaunchingApp", "Done">> }

\* C16: a run stays in its state, moves to the next state of the order, or
\* fails; a new run begins only from a finished one.  The subsystem is started
\* only with the link and the copy of the chosen profile in place, and the app
\* launch is requested only after the start.
C16_Inv ==
    \A p \in Procs :
        /\ "start" \in issued[p].kinds =>
            /\ target_vhdx = LinkTo(next_profile[p])
            /\ target_dat = CopyOf(next_profile[p])
            /\ {"shutdown", "taskkill"} \subseteq issued[p].kinds
        /\ "launch" \in issued[p].kinds =>
            /\ "start" \in issued[p].kinds
            /\ pc[p] \in {"launch", "heartbeat", "done", "failed"}
        /\ pc[p] \in {"launch", "heartbeat", "done"} =>
            "start" \in issued[p].kinds

C16_Step ==
    \A p \in Procs :
        pc'[p] # pc[p] =>
            \/ Phase(pc'[p]) = Phase(pc[p])
            \/ <<Phase(pc[p]), Phase(pc'[p])>> \in PhaseOrder
            \/ pc'[p] = "failed" /\ Phase(pc[p]) # "Done"
            \/ pc[p] \in {"done", "failed"} /\ pc'[p] = "check_admin"

C16_StepOrder == []C16_Inv /\ [][C16_Step]_vars

C16_Witness ==
    /\ pc[1] = "done"
    /\ runs = 2
    /\ issued[1].kinds = {"shutdown", "taskkill", "start", "launch"}

\* C17: a run in progress ends: it reaches done (exit code 0) or failed (exit
\* code 1).
C17_Terminates ==
    (pc[1] \notin Terminal) ~> (pc[1] \in {"done", "failed"})

C17_Witness ==
    /\ pc[1] = "launch"
    /\ attempt[1] = max_retries - 1
    /\ runs = 2

\* The last entry of the persisted queue, NoName for an empty queue.
LastQueued ==
    LET queue == read_queue(queue_file)
    IN IF queue = <<>> THEN NoName ELSE queue[Len(queue)]

\* C18 (as claimed): between runs, when the marker holds a name, the target
\* disk-image path is the link to that profile's disk image and the name is
\* the last entry of the persisted queue.
C18_MarkerLinkAndTail ==
    ((\A p \in Procs : pc[p] \in Terminal) /\ marker # NoName) =>
        /\ target_vhdx = LinkTo(marker)
        /\ LastQueued = marker

\* C18 (amended): when the marker holds a name and no run is between removing
\* the target and writing the marker, the target disk-image path is the link
\* to that profile's disk image; the name is the last entry of the persisted
\* queue from the moment the run wrote it to the end of that run.
C18_MarkerLink ==
    /\ ((\A p \in Procs : pc[p] \notin {"swap_link", "persist"})
            /\ marker # NoName) => target_vhdx = LinkTo(marker)
    /\ \A p \in Procs :
        (\/ pc[p] \in AfterPersist
         \/ pc[p] = "failed" /\ err[p] \in {"start", "launch"}) =>
            marker # NoName /\ LastQueued = marker

C18_Witness ==
    /\ pc[1] = "failed"
    /\ err[1] = "stop"
    /\ runs = 2
    /\ marker # NoName
    /\ LastQueued # marker
    /\ target_vhdx = LinkTo(marker)

\* C19: with no valid profile the run, having written the default name as
\* the queue, fails on the profile-files check: nothing is shut down, the two
\* target paths, the marker and the queue file stay as they are.
C19_NoProfileFailsBeforeStop ==
    [][\A p \in Procs :
        (pc[p] = "select" /\ ValidNames = {}) =>
            /\ queue_file = <<DefaultProfile>>
            /\ pc'[p] = "failed"
            /\ err'[p] = "missing"
            /\ next_profile'[p] = DefaultProfile
            /\ issued'[p] = NoCommands
            /\ env_vars' = env_vars
            /\ target_vhdx' = h_start[p][1]
            /\ target_dat' = h_start[p][2]]_vars

C19_Witness ==
    /\ pc[1] = "failed"
    /\ err[1] = "missing"
    /\ ValidNames = {}
    /\ DefaultProfile \in vhdx
    /\ queue_file = <<DefaultProfile>>
    /\ client_running /\ settings_running

\* Both invocations have finished, the marker holds a name, and the target
\* disk-image path is a link to another profile's disk image.
MarkerLinkApart ==
    /\ \A p \in Procs : pc[p] \in {"done", "failed"}
    /\ marker # NoName
    /\ target_vhdx.kind = "link"
    /\ target_vhdx # LinkTo(marker)

\* C20: two completed invocations that read the same queue activated the same
\* profile, its head, and leave the queue advanced by one position only; and
\* the marker and the link name different profiles after both have finished
\* only when the invocations overlapped.
C20_OverlapRace ==
    /\ (/\ \A p \in Procs : pc[p] = "done"
        /\ h_read[1] = h_read[2]) =>
            /\ next_profile[1] = Head(h_read[1])
            /\ next_profile[2] = next_profile[1]
            /\ read_queue(queue_file) = HeadToTail(h_read[1])
    /\ MarkerLinkApart => overlapped

C20_Witness ==
    /\ \A p \in Procs : pc[p] = "done"
    /\ overlapped
    /\ h_read[1] = <<DefaultProfile, <<"p", "2">>>>
    /\ h_read[2] = h_read[1]
    /\ hist_selected = <<DefaultProfile, DefaultProfile>>
    /\ queue_file = <<<<"p", "2">>, DefaultProfile>>
    /\ marker = DefaultProfile

====
